---- MODULE Spec2Model ----
(***************************************************************************)
(* Model of klap4-backend: the deferred log handler and connect() of       *)
(* klap4/db.py, and the Album / AlbumReview / AlbumProblem entities of     *)
(* klap4/db_entities/album.py.  Calls are sequential: one thread emits,    *)
(* connects, constructs and commits.                                       *)
(***************************************************************************)
EXTENDS Integers, Sequences, FiniteSets, TLC

(***************************************************************************)
(* Bounds of the model.                                                    *)
(***************************************************************************)
MaxEmits == 4

(***************************************************************************)
(* klap4/db.py                                                             *)
(***************************************************************************)
VARIABLES Session, backlog, softwareLog, emitted, dbLoggerLevel, dbFiles, dbCreates, logOp

logVars == <<Session, backlog, softwareLog, emitted, dbLoggerLevel, dbFiles, dbCreates, logOp>>

\* Session = DBNotConnectedError() until connect() assigns the factory.
DBNotConnectedError == "DBNotConnectedError"

FilePaths == {"klap4.db", "other.db"}

\* Python logging levels; 9 is registered as "SQL" by logging.addLevelName(9, "SQL").
SQL == 9
DEBUG == 10
INFO == 20
WARNING == 30
ERROR == 40

LevelNames == {"SQL", "DEBUG", "INFO", "ERROR"}

getLevel(name) ==
    CASE name = "SQL" -> SQL
      [] name = "DEBUG" -> DEBUG
      [] name = "INFO" -> INFO
      [] name = "WARNING" -> WARNING
      [] name = "ERROR" -> ERROR

Messages == {"m1", "m2"}

is_connected(S) == S # DBNotConnectedError

\* The handler state the two methods work on: the shared class-level backlog
\* and the rows committed to the software_log table.
HandlerState(b, s) == [backlog |-> b, store |-> s]

RECURSIVE emit(_, _, _, _)
RECURSIVE catchup(_, _)

\* Mutant of catchup: replays the newest buffered record first.
RECURSIVE catchup_newest_first(_, _)
catchup_newest_first(S, h) ==
    IF Len(h.backlog) > 0
    THEN LET n == Len(h.backlog)
             h1 == emit(S, h, h.backlog[n], TRUE)
         IN catchup_newest_first(S, [h1 EXCEPT !.backlog = SubSeq(h1.backlog, 1, n - 1)])
    ELSE h

catchup(S, h) ==
    IF Len(h.backlog) > 0
    THEN LET h1 == emit(S, h, h.backlog[1], TRUE)
         IN catchup(S, [h1 EXCEPT !.backlog = Tail(h1.backlog)])
    ELSE h

emit(S, h, record, recursing) ==
    IF ~is_connected(S)
    THEN IF ~recursing
         THEN [h EXCEPT !.backlog = Append(h.backlog, record)]
         ELSE h
    ELSE LET h1 == IF ~recursing /\ Len(h.backlog) > 0 THEN catchup(S, h) ELSE h
         IN [h1 EXCEPT !.store = Append(h1.store, record)]

\* A LogRecord; id is its position in the sequence of emit calls.
LogRecord(n, m) == [id |-> n, msg |-> m]

\* Logger.debug / Logger.info on db_logger: the handler is called when the
\* record's level is enabled for the logger's level.
isEnabledFor(lvl, loggerLevel) == lvl >= loggerLevel

\* logs is the sequence of <<level, message>> the caller passes to db_logger,
\* h the handler state, em the emit history; the result carries both.
RECURSIVE db_logger_log(_, _, _, _, _)
db_logger_log(S, h, em, loggerLevel, logs) ==
    IF logs = <<>>
    THEN [h |-> h, em |-> em]
    ELSE LET l == Head(logs)
         IN IF isEnabledFor(l[1], loggerLevel)
            THEN LET r == LogRecord(Len(em) + 1, l[2])
                 IN db_logger_log(S, emit(S, h, r, FALSE), Append(em, r), loggerLevel, Tail(logs))
            ELSE db_logger_log(S, h, em, loggerLevel, Tail(logs))

InitLogWith(files) ==
    /\ Session = DBNotConnectedError
    /\ backlog = <<>>
    /\ softwareLog = <<>>
    /\ emitted = <<>>
    /\ dbLoggerLevel = WARNING
    /\ dbFiles = files
    /\ dbCreates = 0
    /\ logOp = [op |-> "init", nBuffered |-> 0]

\* DBHandler.emit(record) called by a logger that carries the handler.
Emit(m) ==
    /\ Len(emitted) < MaxEmits
    /\ LET r == LogRecord(Len(emitted) + 1, m)
           h == emit(Session, HandlerState(backlog, softwareLog), r, FALSE)
       IN /\ backlog' = h.backlog
          /\ softwareLog' = h.store
          /\ emitted' = Append(emitted, r)
          /\ logOp' = [op |-> "emit", connected |-> is_connected(Session),
                      nBuffered |-> IF is_connected(Session) THEN logOp.nBuffered ELSE Len(emitted) + 1]
    /\ UNCHANGED <<Session, dbLoggerLevel, dbFiles, dbCreates>>

\* Mutant of ConnectFresh: the Session is assigned but the handlers are not
\* caught up.
ConnectFresh_no_catchup(file_path, reset, db_log_level) ==
    /\ ~is_connected(Session)
    /\ Len(emitted) + 2 <= MaxEmits
    /\ LET lvl == getLevel(db_log_level)
           reset1 == reset \/ file_path \notin dbFiles
           logs == <<<<DEBUG, "Initializing DB connection">>>>
                   \o (IF reset1 THEN <<<<INFO, "Creating database.">>>> ELSE <<>>)
           l == db_logger_log(Session, HandlerState(backlog, softwareLog), emitted, lvl, logs)
       IN /\ dbLoggerLevel' = lvl
          /\ dbFiles' = IF reset1 THEN dbFiles \cup {file_path} ELSE dbFiles
          /\ dbCreates' = IF reset1 THEN dbCreates + 1 ELSE dbCreates
          /\ Session' = file_path
          /\ backlog' = l.h.backlog
          /\ softwareLog' = l.h.store
          /\ emitted' = l.em
          /\ logOp' = [op |-> "connect", connected |-> FALSE, nBuffered |-> Len(l.em)]

\* connect() while not connected: sets the level, logs, creates the
\* database when asked or when the file is missing, assigns Session and lets
\* every DBHandler catch up.
ConnectFresh(file_path, reset, db_log_level) ==
    /\ ~is_connected(Session)
    /\ Len(emitted) + 2 <= MaxEmits
    /\ LET lvl == getLevel(db_log_level)
           reset1 == reset \/ file_path \notin dbFiles
           logs == <<<<DEBUG, "Initializing DB connection">>>>
                   \o (IF reset1 THEN <<<<INFO, "Creating database.">>>> ELSE <<>>)
           l == db_logger_log(Session, HandlerState(backlog, softwareLog), emitted, lvl, logs)
           h == catchup(file_path, l.h)
       IN /\ dbLoggerLevel' = lvl
          /\ dbFiles' = IF reset1 THEN dbFiles \cup {file_path} ELSE dbFiles
          /\ dbCreates' = IF reset1 THEN dbCreates + 1 ELSE dbCreates
          /\ Session' = file_path
          /\ backlog' = h.backlog
          /\ softwareLog' = h.store
          /\ emitted' = l.em
          /\ logOp' = [op |-> "connect", connected |-> FALSE, nBuffered |-> Len(l.em)]

\* Mutant of ConnectAgain: the early return is missing, so the call connects
\* anew: it creates the database when asked or when the file is missing and
\* assigns Session again.
ConnectAgain_reconnect(file_path, reset, db_log_level) ==
    /\ is_connected(Session)
    /\ Len(emitted) + 1 <= MaxEmits
    /\ LET l == db_logger_log(Session, HandlerState(backlog, softwareLog), emitted, dbLoggerLevel,
                              <<<<DEBUG, "DB already connected to.">>>>)
           reset1 == reset \/ file_path \notin dbFiles
       IN /\ backlog' = l.h.backlog
          /\ softwareLog' = l.h.store
          /\ emitted' = l.em
          /\ dbFiles' = IF reset1 THEN dbFiles \cup {file_path} ELSE dbFiles
          /\ dbCreates' = IF reset1 THEN dbCreates + 1 ELSE dbCreates
          /\ Session' = file_path
          /\ logOp' = [op |-> "connect", connected |-> TRUE, nBuffered |-> logOp.nBuffered,
                      file_path |-> file_path, reset |-> reset]
    /\ UNCHANGED dbLoggerLevel

\* connect() while already connected: logs at debug level and returns.
ConnectAgain(file_path, reset, db_log_level) ==
    /\ is_connected(Session)
    /\ Len(emitted) + 1 <= MaxEmits
    /\ LET l == db_logger_log(Session, HandlerState(backlog, softwareLog), emitted, dbLoggerLevel,
                              <<<<DEBUG, "DB already connected to.">>>>)
       IN /\ backlog' = l.h.backlog
          /\ softwareLog' = l.h.store
          /\ emitted' = l.em
          /\ logOp' = [op |-> "connect", connected |-> TRUE, nBuffered |-> logOp.nBuffered,
                      file_path |-> file_path, reset |-> reset]
    /\ UNCHANGED <<Session, dbLoggerLevel, dbFiles, dbCreates>>


(***************************************************************************)
(* klap4/db_entities: the tag codec, the Artist lookup and the letter       *)
(* allocator (klap4/db_entities/__init__.py and artist.py), as album.py     *)
(* uses them.                                                               *)
(***************************************************************************)
MaxTagLen == 5
NumLetters == 3
MaxAlbums == 3
MaxNotes == 2
MaxClock == 6

None == "None"

DigitChars == <<"0", "1", "2", "3", "4", "5", "6", "7", "8", "9">>

Alphabet == <<"a", "b", "c", "d", "e", "f", "g", "h", "i", "j", "k", "l", "m",
              "n", "o", "p", "q", "r", "s", "t", "u", "v", "w", "x", "y", "z">>

Min(a, b) == IF a < b THEN a ELSE b

\* The letters a.. the allocator draws from.
Letters == {Alphabet[i] : i \in 1..Min(NumLetters, Len(Alphabet))}

isdigit(c) == \E i \in 1..Len(DigitChars) : DigitChars[i] = c

digit_value(c) == (CHOOSE i \in 1..Len(DigitChars) : DigitChars[i] = c) - 1

\* int(s) for a string of decimal digits.
RECURSIVE int(_)
int(s) ==
    IF Len(s) = 0 THEN 0
    ELSE 10 * int(SubSeq(s, 1, Len(s) - 1)) + digit_value(s[Len(s)])

\* str(n) for a natural number.
RECURSIVE str(_)
str(n) ==
    IF n < 10 THEN <<DigitChars[n + 1]>>
    ELSE str(n \div 10) \o <<DigitChars[(n % 10) + 1]>>

\* The number of leading digits of s.
RECURSIVE digit_run(_)
digit_run(s) ==
    IF Len(s) > 0 /\ isdigit(Head(s)) THEN 1 + digit_run(Tail(s)) ELSE 0

InvalidTagFormat == [ok |-> FALSE, error |-> "InvalidTagFormat"]

\* decompose_tag: two characters of genre, one or more digits of artist number,
\* at most one trailing character, the album letter.
decompose_tag(tag) ==
    IF Len(tag) < 3 THEN InvalidTagFormat
    ELSE LET rest == SubSeq(tag, 3, Len(tag))
             k == digit_run(rest)
         IN IF k = 0 \/ Len(rest) - k > 1 THEN InvalidTagFormat
            ELSE [ok |-> TRUE,
                  genre_abbr |-> SubSeq(tag, 1, 2),
                  artist_num |-> int(SubSeq(rest, 1, k)),
                  album_letter |-> IF Len(rest) > k THEN rest[Len(rest)] ELSE None]

\* The tag of its parts, by concatenation.
compose_tag(genre_abbr, artist_num, album_letter) ==
    genre_abbr \o str(artist_num) \o (IF album_letter = None THEN <<>> ELSE <<album_letter>>)

\* Artist.id: the artist's tag.
Artist_id(artist) == compose_tag(artist.genre_abbr, artist.number, None)

ArtistNotFound == [ok |-> FALSE, error |-> "ArtistNotFound"]

\* get_entity_from_tag for an artist tag: the stored Artist of that key.
get_entity_from_tag(tag, arts) ==
    LET d == decompose_tag(tag)
    IN IF ~d.ok THEN d
       ELSE LET found == {a \in arts : a.genre_abbr = d.genre_abbr /\ a.number = d.artist_num}
            IN IF found = {} THEN ArtistNotFound
               ELSE [ok |-> TRUE, artist |-> CHOOSE a \in found : TRUE]

\* The letters held by the stored albums of an artist.
LettersOf(genre_abbr, artist_num, albs) ==
    {r.letter : r \in {x \in albs : x.genre_abbr = genre_abbr /\ x.artist_num = artist_num}}

\* Artist.next_album_letter: the smallest letter of the alphabet that no
\* stored album of the artist holds.
next_album_letter(artist, albs) ==
    LET used == LettersOf(artist.genre_abbr, artist.number, albs)
        free == {i \in 1..Min(NumLetters, Len(Alphabet)) : Alphabet[i] \notin used}
    IN IF free = {} THEN [ok |-> FALSE, error |-> "LetterSpaceExhausted"]
       ELSE [ok |-> TRUE, letter |-> Alphabet[CHOOSE i \in free : \A j \in free : i <= j]]

(***************************************************************************)
(* klap4/db_entities/album.py                                              *)
(***************************************************************************)
VARIABLES now, genres, artists, albums, albumObjs, reviews, reviewObjs, problems, nextOid, catOp

\* The tag handed to the codec and what the codec made of it.
VARIABLES tagIn, codecOp

codecVars == <<tagIn, codecOp>>

catVars == <<now, genres, artists, albums, albumObjs, reviews, reviewObjs, problems, nextOid, catOp>>

\* The clock counts in ticks of half a day.
TicksPerDay == 2

timedelta_days(d) == d * TicksPerDay

\* {**f, **g} of Python: the keys of both, g winning.
Update(f, g) == [x \in (DOMAIN f) \cup (DOMAIN g) |-> IF x \in DOMAIN g THEN g[x] ELSE f[x]]

\* No keyword at all.
NoKwargs == [x \in {} |-> None]

\* kwargs.pop(key)
Pop(f, key) == [x \in (DOMAIN f) \ {key} |-> f[x]]

\* Mutant of Album__init__: an explicitly supplied letter wins over the letter
\* of the tag.
Album__init__explicit_wins(kwargs, arts, albs, t) ==
    LET hasId == "id" \in DOMAIN kwargs
        d == IF hasId THEN decompose_tag(kwargs.id) ELSE InvalidTagFormat
    IN IF hasId /\ ~d.ok THEN d
       ELSE LET k1 == IF hasId
                      THEN Pop(Update(Update(kwargs, [genre_abbr |-> d.genre_abbr, artist_num |-> d.artist_num]),
                                      IF d.album_letter # None /\ "letter" \notin DOMAIN kwargs
                                      THEN [letter |-> d.album_letter] ELSE NoKwargs), "id")
                      ELSE kwargs
                need == "letter" \notin DOMAIN k1
                a == IF need THEN get_entity_from_tag(k1.genre_abbr \o str(k1.artist_num), arts) ELSE ArtistNotFound
                l == IF need /\ a.ok THEN next_album_letter(a.artist, albs) ELSE ArtistNotFound
            IN IF need /\ ~a.ok THEN a
               ELSE IF need /\ ~l.ok THEN l
               ELSE [ok |-> TRUE,
                     allocated |-> need,
                     obj |-> Update([date_added |-> t, missing |-> FALSE],
                                    IF need THEN Update(k1, [letter |-> l.letter]) ELSE k1)]

\* Mutant of Album__init__: the allocator is not asked; a new album gets "a".
Album__init__first_letter(kwargs, arts, albs, t) ==
    LET hasId == "id" \in DOMAIN kwargs
        d == IF hasId THEN decompose_tag(kwargs.id) ELSE InvalidTagFormat
    IN IF hasId /\ ~d.ok THEN d
       ELSE LET k1 == IF hasId
                      THEN Pop(Update(Update(kwargs, [genre_abbr |-> d.genre_abbr, artist_num |-> d.artist_num]),
                                      IF d.album_letter # None THEN [letter |-> d.album_letter] ELSE NoKwargs), "id")
                      ELSE kwargs
                need == "letter" \notin DOMAIN k1
                a == IF need THEN get_entity_from_tag(k1.genre_abbr \o str(k1.artist_num), arts) ELSE ArtistNotFound
            IN IF need /\ ~a.ok THEN a
               ELSE [ok |-> TRUE,
                     allocated |-> need,
                     obj |-> Update([date_added |-> t, missing |-> FALSE],
                                    IF need THEN Update(k1, [letter |-> Alphabet[1]]) ELSE k1)]

\* Mutant of Album__init__: a missing artist is tolerated and the new album
\* gets the first letter.
Album__init__no_check(kwargs, arts, albs, t) ==
    LET hasId == "id" \in DOMAIN kwargs
        d == IF hasId THEN decompose_tag(kwargs.id) ELSE InvalidTagFormat
    IN IF hasId /\ ~d.ok THEN d
       ELSE LET k1 == IF hasId
                      THEN Pop(Update(Update(kwargs, [genre_abbr |-> d.genre_abbr, artist_num |-> d.artist_num]),
                                      IF d.album_letter # None THEN [letter |-> d.album_letter] ELSE NoKwargs), "id")
                      ELSE kwargs
                need == "letter" \notin DOMAIN k1
                a == IF need THEN get_entity_from_tag(k1.genre_abbr \o str(k1.artist_num), arts) ELSE ArtistNotFound
                l == IF need /\ a.ok THEN next_album_letter(a.artist, albs)
                     ELSE [ok |-> TRUE, letter |-> Alphabet[1]]
            IN IF need /\ ~l.ok THEN l
               ELSE [ok |-> TRUE,
                     allocated |-> need,
                     obj |-> Update([date_added |-> t, missing |-> FALSE],
                                    IF need THEN Update(k1, [letter |-> l.letter]) ELSE k1)]

\* Album.__init__(**kwargs) at time t against the stored artists and albums:
\* the fields of the new object, or the error raised.
Album__init__(kwargs, arts, albs, t) ==
    LET hasId == "id" \in DOMAIN kwargs
        d == IF hasId THEN decompose_tag(kwargs.id) ELSE InvalidTagFormat
    IN IF hasId /\ ~d.ok THEN d
       ELSE LET k1 == IF hasId
                      THEN Pop(Update(Update(kwargs, [genre_abbr |-> d.genre_abbr, artist_num |-> d.artist_num]),
                                      IF d.album_letter # None THEN [letter |-> d.album_letter] ELSE NoKwargs), "id")
                      ELSE kwargs
                need == "letter" \notin DOMAIN k1
                a == IF need THEN get_entity_from_tag(k1.genre_abbr \o str(k1.artist_num), arts) ELSE ArtistNotFound
                l == IF need /\ a.ok THEN next_album_letter(a.artist, albs) ELSE ArtistNotFound
            IN IF need /\ ~a.ok THEN a
               ELSE IF need /\ ~l.ok THEN l
               ELSE [ok |-> TRUE,
                     allocated |-> need,
                     obj |-> Update([date_added |-> t, missing |-> FALSE],
                                    IF need THEN Update(k1, [letter |-> l.letter]) ELSE k1)]

\* Mutant of Album_is_new: the comparison includes the boundary.
Album_is_new_inclusive(album, t) == t - album.date_added <= timedelta_days(30 * 6)

\* Album.is_new read at time t.
Album_is_new(album, t) == t - album.date_added < timedelta_days(30 * 6)

\* Album.artist: the stored Artists the join predicate selects (at most one,
\* the Artist key being unique; none for a dangling reference).
Album_artist(album, arts) ==
    {a \in arts : a.genre_abbr = album.genre_abbr /\ a.number = album.artist_num}

\* Mutant of Album_id: the letter is left out of the id.
Album_id_no_letter(album, arts) ==
    LET found == Album_artist(album, arts)
    IN IF found = {} THEN [ok |-> FALSE, error |-> "AttributeError"]
       ELSE [ok |-> TRUE, id |-> Artist_id(CHOOSE a \in found : TRUE)]

\* Album.id: the artist's id followed by the letter; an AttributeError when
\* the album has no artist.
Album_id(album, arts) ==
    LET found == Album_artist(album, arts)
    IN IF found = {} THEN [ok |-> FALSE, error |-> "AttributeError"]
       ELSE [ok |-> TRUE, id |-> Artist_id(CHOOSE a \in found : TRUE) \o <<album.letter>>]

\* AlbumReview.__init__(**kwargs) at time t.
AlbumReview__init__(kwargs, t) ==
    IF "date_entered" \in DOMAIN kwargs
    THEN Update(kwargs, [date_entered |-> t])
    ELSE kwargs

\* AlbumProblem.__init__(**kwargs)
AlbumProblem__init__(kwargs) == kwargs

\* The primary key of an album row.
AlbumKey(r) == <<r.genre_abbr, r.artist_num, r.letter>>

\* The primary key of an album_review or album_problem row.
NoteKey(r) == <<r.genre_abbr, r.artist_num, r.album_letter, r.dj_id>>

(***************************************************************************)
(* The operations on the catalog.                                          *)
(***************************************************************************)
RK == <<"R", "K">>
JZ == <<"J", "Z">>

\* Album(**kwargs): on success the new object exists, not yet in the store.
NewAlbum(kwargs) ==
    /\ nextOid <= MaxAlbums
    /\ LET res == Album__init__(kwargs, artists, albums, now)
       IN /\ albumObjs' = IF res.ok THEN albumObjs \cup {Update(res.obj, [oid |-> nextOid])} ELSE albumObjs
          /\ nextOid' = IF res.ok THEN nextOid + 1 ELSE nextOid
          /\ catOp' = [op |-> "Album", kwargs |-> kwargs, res |-> res, oid |-> nextOid,
                       at |-> now]
    /\ UNCHANGED <<now, genres, artists, albums, reviews, reviewObjs, problems>>

\* Mutant of PersistAlbum: the primary key is not enforced.
PersistAlbum_no_key(o) ==
    /\ o \in albumObjs
    /\ albumObjs' = albumObjs \ {o}
    /\ albums' = albums \cup {o}
    /\ catOp' = [op |-> "persist", oid |-> o.oid, ok |-> TRUE]
    /\ UNCHANGED <<now, genres, artists, reviews, reviewObjs, problems, nextOid>>

\* session.add(album); session.commit(): the row is inserted unless a stored
\* album has the same primary key (genre_abbr, artist_num, letter), in which
\* case the commit fails and the row is not stored.
PersistAlbum(o) ==
    /\ o \in albumObjs
    /\ albumObjs' = albumObjs \ {o}
    /\ LET dup == \E r \in albums : AlbumKey(r) = AlbumKey(o)
       IN /\ albums' = IF dup THEN albums ELSE albums \cup {o}
          /\ catOp' = [op |-> "persist", oid |-> o.oid, ok |-> ~dup]
    /\ UNCHANGED <<now, genres, artists, reviews, reviewObjs, problems, nextOid>>

\* session.delete(album); session.commit(): the backrefs album_reviews and
\* album_problems cascade.
DeleteAlbum(r) ==
    /\ r \in albums
    /\ albums' = albums \ {r}
    /\ reviews' = {x \in reviews : <<x.genre_abbr, x.artist_num, x.album_letter>> # AlbumKey(r)}
    /\ problems' = {x \in problems : <<x.genre_abbr, x.artist_num, x.album_letter>> # AlbumKey(r)}
    /\ catOp' = [op |-> "delete", oid |-> r.oid]
    /\ UNCHANGED <<now, genres, artists, albumObjs, reviewObjs, nextOid>>

\* AlbumReview(**kwargs)
NewReview(kwargs) ==
    /\ Cardinality(reviewObjs) + Cardinality(reviews) < MaxNotes
    /\ LET obj == AlbumReview__init__(kwargs, now)
       IN /\ reviewObjs' = reviewObjs \cup {obj}
          /\ catOp' = [op |-> "AlbumReview", kwargs |-> kwargs, obj |-> obj, at |-> now]
    /\ UNCHANGED <<now, genres, artists, albums, albumObjs, reviews, problems, nextOid>>

\* session.add(review); session.commit(): date_entered is not nullable and the
\* primary key is (genre_abbr, artist_num, album_letter, dj_id).
PersistReview(o) ==
    /\ o \in reviewObjs
    /\ reviewObjs' = reviewObjs \ {o}
    /\ LET bad == \/ "date_entered" \notin DOMAIN o
                  \/ \E r \in reviews : NoteKey(r) = NoteKey(o)
       IN /\ reviews' = IF bad THEN reviews ELSE reviews \cup {o}
          /\ catOp' = [op |-> "persistReview", ok |-> ~bad]
    /\ UNCHANGED <<now, genres, artists, albums, albumObjs, problems, nextOid>>

\* session.add(AlbumProblem(**kwargs)); session.commit()
AddProblem(kwargs) ==
    /\ Cardinality(problems) < MaxNotes
    /\ LET o == AlbumProblem__init__(kwargs)
           bad == \E r \in problems : NoteKey(r) = NoteKey(o)
       IN /\ problems' = IF bad THEN problems ELSE problems \cup {o}
          /\ catOp' = [op |-> "AlbumProblem", ok |-> ~bad]
    /\ UNCHANGED <<now, genres, artists, albums, albumObjs, reviews, reviewObjs, nextOid>>

\* Mutant of DeleteGenre: only the albums are cascaded to.
DeleteGenre_albums_only(g) ==
    /\ g \in genres
    /\ genres' = genres \ {g}
    /\ artists' = {a \in artists : a.genre_abbr # g}
    /\ albums' = {x \in albums : x.genre_abbr # g}
    /\ catOp' = [op |-> "deleteGenre", genre |-> g,
                 rows |-> Cardinality({x \in albums : x.genre_abbr = g}),
                 notes |-> Cardinality({x \in reviews : x.genre_abbr = g})
                           + Cardinality({x \in problems : x.genre_abbr = g})]
    /\ UNCHANGED <<now, albumObjs, reviews, reviewObjs, problems, nextOid>>

\* session.delete(genre); session.commit(): the backrefs albums, album_reviews
\* and album_problems (and the genre's artists) are declared cascade="all".
DeleteGenre(g) ==
    /\ g \in genres
    /\ genres' = genres \ {g}
    /\ artists' = {a \in artists : a.genre_abbr # g}
    /\ albums' = {x \in albums : x.genre_abbr # g}
    /\ reviews' = {x \in reviews : x.genre_abbr # g}
    /\ problems' = {x \in problems : x.genre_abbr # g}
    /\ catOp' = [op |-> "deleteGenre", genre |-> g,
                 rows |-> Cardinality({x \in albums : x.genre_abbr = g}),
                 notes |-> Cardinality({x \in reviews : x.genre_abbr = g})
                           + Cardinality({x \in problems : x.genre_abbr = g})]
    /\ UNCHANGED <<now, albumObjs, reviewObjs, nextOid>>

\* The clock advances.
Tick(d) ==
    /\ now + d <= timedelta_days(30 * 6) + MaxClock
    /\ now' = now + d
    /\ catOp' = [op |-> "tick", seenNew |-> catOp.op \in {"tick", "is_new"} /\ catOp.seenNew]
    /\ UNCHANGED <<genres, artists, albums, albumObjs, reviews, reviewObjs, problems, nextOid>>

\* album.is_new is read.
ReadIsNew(o) ==
    /\ o \in albumObjs \cup albums
    /\ catOp' = [op |-> "is_new", oid |-> o.oid, value |-> Album_is_new(o, now), at |-> now,
                 seenNew |-> Album_is_new(o, now) \/ (catOp.op \in {"tick", "is_new"} /\ catOp.seenNew)]
    /\ UNCHANGED <<now, genres, artists, albums, albumObjs, reviews, reviewObjs, problems, nextOid>>

\* album.id is read on a stored album.
ReadId(o) ==
    /\ o \in albums
    /\ catOp' = [op |-> "id", oid |-> o.oid, res |-> Album_id(o, artists)]
    /\ UNCHANGED <<now, genres, artists, albums, albumObjs, reviews, reviewObjs, problems, nextOid>>

\* decompose_tag(tagIn), and the tag composed back from its parts.
Decompose ==
    /\ codecOp.op = "none"
    /\ LET d == decompose_tag(tagIn)
       IN codecOp' = [op |-> "decompose", res |-> d,
                      back |-> IF d.ok THEN compose_tag(d.genre_abbr, d.artist_num, d.album_letter) ELSE <<>>]
    /\ UNCHANGED tagIn

(***************************************************************************)
(* The specifications.                                                     *)
(***************************************************************************)
vars == <<logVars, catVars, codecVars>>

InitCatWith(g, a) ==
    /\ now = 0
    /\ genres = g
    /\ artists = a
    /\ albums = {}
    /\ albumObjs = {}
    /\ reviews = {}
    /\ reviewObjs = {}
    /\ problems = {}
    /\ nextOid = 1
    /\ catOp = [op |-> "init"]

InitCodecWith(t) ==
    /\ tagIn = t
    /\ codecOp = [op |-> "none"]

Artist(g, n) == [genre_abbr |-> g, number |-> n]

\* The deferred log handler and connect().
InitLog ==
    /\ \E files \in SUBSET FilePaths : InitLogWith(files)
    /\ InitCatWith({RK}, {Artist(RK, 1)})
    /\ InitCodecWith(<<>>)

NextLog ==
    \/ \E m \in Messages : Emit(m) /\ UNCHANGED <<catVars, codecVars>>
    \/ \E p \in FilePaths, r \in BOOLEAN, l \in LevelNames :
          ConnectFresh(p, r, l) /\ UNCHANGED <<catVars, codecVars>>
    \/ \E p \in FilePaths, r \in BOOLEAN, l \in LevelNames :
          ConnectAgain(p, r, l) /\ UNCHANGED <<catVars, codecVars>>

SpecLog == InitLog /\ [][NextLog]_vars

\* Album construction, persistence and deletion under the genre RK, whose
\* artist 1 exists and whose artist 2 does not.
ArtistNums == {1, 2}

AlbumTags == {compose_tag(RK, n, l) : n \in ArtistNums, l \in Letters \cup {None}} \cup {RK}

\* The keywords of a construction: structured fields or an id tag, with or
\* without a letter, and an id tag beside fields that contradict it.
AlbumKwargs ==
    {[genre_abbr |-> RK, artist_num |-> n] : n \in ArtistNums}
    \cup {[genre_abbr |-> RK, artist_num |-> n, letter |-> l] : n \in ArtistNums, l \in Letters}
    \cup {[id |-> t] : t \in AlbumTags}
    \cup {[id |-> t, letter |-> "a"] : t \in AlbumTags}
    \cup {[id |-> compose_tag(RK, 1, l), genre_abbr |-> JZ, artist_num |-> 2] : l \in {None, "b"}}

InitAlbum ==
    /\ InitLogWith({})
    /\ InitCatWith({RK}, {Artist(RK, 1)})
    /\ InitCodecWith(<<>>)

NextAlbum ==
    \/ \E kw \in AlbumKwargs : NewAlbum(kw) /\ UNCHANGED <<logVars, codecVars>>
    \/ \E o \in albumObjs : PersistAlbum(o) /\ UNCHANGED <<logVars, codecVars>>
    \/ \E r \in albums : DeleteAlbum(r) /\ UNCHANGED <<logVars, codecVars>>

SpecAlbum == InitAlbum /\ [][NextAlbum]_vars

\* A tag through the codec and through Album(id=tag); the artist the tag
\* names exists.
TagChars == {"R", "K", "0", "1", "a"}

RECURSIVE Strings(_)
Strings(n) ==
    IF n = 0 THEN {<<>>}
    ELSE LET shorter == Strings(n - 1)
         IN shorter \cup {Append(s, c) : s \in {x \in shorter : Len(x) = n - 1}, c \in TagChars}

InitCodec ==
    /\ InitLogWith({})
    /\ \E t \in Strings(MaxTagLen) :
          /\ InitCodecWith(t)
          /\ LET d == decompose_tag(t)
             IN InitCatWith({}, IF d.ok THEN {Artist(d.genre_abbr, d.artist_num)} ELSE {})

NextCodec ==
    \/ Decompose /\ UNCHANGED <<logVars, catVars>>
    \/ (nextOid = 1 /\ NewAlbum([id |-> tagIn])) /\ UNCHANGED <<logVars, codecVars>>
    \/ \E o \in albumObjs : PersistAlbum(o) /\ UNCHANGED <<logVars, codecVars>>
    \/ \E o \in albums : ReadId(o) /\ UNCHANGED <<logVars, codecVars>>

SpecCodec == InitCodec /\ [][NextCodec]_vars

\* AlbumReview construction against the clock.
ReviewKwargs ==
    {[genre_abbr |-> RK, artist_num |-> 1, album_letter |-> "a", dj_id |-> "dj1"]}
    \cup {[genre_abbr |-> RK, artist_num |-> 1, album_letter |-> "a", dj_id |-> "dj1", date_entered |-> t] :
            t \in {0, timedelta_days(7 * 4), timedelta_days(365)}}

InitReview ==
    /\ InitLogWith({})
    /\ InitCatWith({RK}, {Artist(RK, 1)})
    /\ InitCodecWith(<<>>)

NextReview ==
    \/ Tick(timedelta_days(7 * 4)) /\ UNCHANGED <<logVars, codecVars>>
    \/ \E kw \in ReviewKwargs : NewReview(kw) /\ UNCHANGED <<logVars, codecVars>>
    \/ \E o \in reviewObjs : PersistReview(o) /\ UNCHANGED <<logVars, codecVars>>

SpecReview == InitReview /\ [][NextReview]_vars

\* One album and the clock.
TimedAlbumKwargs ==
    {[genre_abbr |-> RK, artist_num |-> 1, letter |-> "a"]}
    \cup {[genre_abbr |-> RK, artist_num |-> 1, letter |-> "a", date_added |-> t] :
            t \in {0, timedelta_days(365)}}

InitIsNew ==
    /\ InitLogWith({})
    /\ InitCatWith({RK}, {Artist(RK, 1)})
    /\ InitCodecWith(<<>>)

NextIsNew ==
    \/ \E d \in {1, timedelta_days(30 * 6 - 1)} : Tick(d) /\ UNCHANGED <<logVars, codecVars>>
    \/ \E kw \in TimedAlbumKwargs : (nextOid = 1 /\ NewAlbum(kw)) /\ UNCHANGED <<logVars, codecVars>>
    \/ \E o \in albumObjs : ReadIsNew(o) /\ UNCHANGED <<logVars, codecVars>>

SpecIsNew == InitIsNew /\ [][NextIsNew]_vars

\* Genres with their albums, reviews and problem reports.
CascadeAlbumKwargs ==
    {[genre_abbr |-> g, artist_num |-> 1, letter |-> "a"] : g \in {RK, JZ}}

CascadeNoteKwargs ==
    {[genre_abbr |-> g, artist_num |-> 1, album_letter |-> "a", dj_id |-> "dj1", date_entered |-> 0] :
        g \in {RK, JZ}}

InitCascade ==
    /\ InitLogWith({})
    /\ InitCatWith({RK, JZ}, {Artist(RK, 1), Artist(JZ, 1)})
    /\ InitCodecWith(<<>>)

NextCascade ==
    \/ \E kw \in CascadeAlbumKwargs : NewAlbum(kw) /\ UNCHANGED <<logVars, codecVars>>
    \/ \E o \in albumObjs : PersistAlbum(o) /\ UNCHANGED <<logVars, codecVars>>
    \/ \E kw \in CascadeNoteKwargs : NewReview(kw) /\ UNCHANGED <<logVars, codecVars>>
    \/ \E o \in reviewObjs : PersistReview(o) /\ UNCHANGED <<logVars, codecVars>>
    \/ \E kw \in CascadeNoteKwargs : AddProblem(Pop(kw, "date_entered")) /\ UNCHANGED <<logVars, codecVars>>
    \/ \E r \in albums : DeleteAlbum(r) /\ UNCHANGED <<logVars, codecVars>>
    \/ \E g \in genres : DeleteGenre(g) /\ UNCHANGED <<logVars, codecVars>>

SpecCascade == InitCascade /\ [][NextCascade]_vars

(***************************************************************************)
(* Properties of the deferred log delivery.                                *)
(***************************************************************************)
IsPrefix(s, t) == Len(s) <= Len(t) /\ SubSeq(t, 1, Len(s)) = s

Count(s, x) == Cardinality({i \in 1..Len(s) : s[i] = x})

\* C1: the records are written to the store in exactly the order in which they
\* were passed to emit: the store is always a prefix of the emit history, the
\* backlog holds the rest in emit order, and so every record buffered while
\* disconnected is written, oldest first, before any record emitted afterwards.
C1_ArrivalOrder ==
    /\ IsPrefix(softwareLog, emitted)
    /\ softwareLog \o backlog = emitted
    /\ is_connected(Session) => softwareLog = emitted

\* Two records were buffered while disconnected and a third was emitted after
\* the connection; all three are in the store.
C1_Witness ==
    /\ is_connected(Session)
    /\ logOp.nBuffered >= 2
    /\ Len(emitted) > logOp.nBuffered
    /\ Len(softwareLog) >= 3

\* C10: no record is lost or duplicated: while disconnected every emitted record
\* is in the backlog exactly once and none is in the store; once connected the
\* backlog is empty and every emitted record is in the store exactly once, and
\* nothing else is.
C10_NoLossNoDup ==
    /\ ~is_connected(Session) =>
          /\ softwareLog = <<>>
          /\ \A i \in 1..Len(emitted) : Count(backlog, emitted[i]) = 1
          /\ Len(backlog) = Len(emitted)
    /\ is_connected(Session) =>
          /\ backlog = <<>>
          /\ \A i \in 1..Len(emitted) : Count(softwareLog, emitted[i]) = 1
          /\ Len(softwareLog) = Len(emitted)

\* A connect() has just caught up a backlog of at least two records.
C10_Witness ==
    /\ logOp.op = "connect"
    /\ ~logOp.connected
    /\ logOp.nBuffered >= 2
    /\ Len(softwareLog) >= 2
    /\ backlog = <<>>

(***************************************************************************)
(* Properties of the catalog.                                              *)
(***************************************************************************)
\* The letters of the stored albums of the artist (g, n).
StoredLetters(g, n) == {r.letter : r \in {x \in albums : x.genre_abbr = g /\ x.artist_num = n}}

LetterIndex(l) == CHOOSE i \in 1..Len(Alphabet) : Alphabet[i] = l

\* The last operation constructed an Album and let the allocator choose.
Allocated == catOp.op = "Album" /\ catOp.res.ok /\ catOp.res.allocated

\* C2: no two stored albums of one artist have the same letter, and a letter
\* the allocator assigned at construction is not held by a stored album of
\* that artist.
C2_LetterUnique ==
    /\ \A r1 \in albums : \A r2 \in albums :
          (r1.oid # r2.oid /\ r1.genre_abbr = r2.genre_abbr /\ r1.artist_num = r2.artist_num)
             => r1.letter # r2.letter
    /\ Allocated =>
          catOp.res.obj.letter \notin StoredLetters(catOp.res.obj.genre_abbr, catOp.res.obj.artist_num)

\* Two albums were constructed against the same snapshot; the second one to be
\* persisted was refused, the artist holding two albums by then.
C2_Witness ==
    /\ catOp.op = "persist"
    /\ ~catOp.ok
    /\ Cardinality({x \in albums : x.genre_abbr = RK /\ x.artist_num = 1}) >= 2

\* C3: the letter the allocator assigns is the smallest letter of the alphabet
\* that no stored album of the artist holds.
C3_GapFilling ==
    Allocated =>
       LET used == StoredLetters(catOp.res.obj.genre_abbr, catOp.res.obj.artist_num)
           l == catOp.res.obj.letter
       IN /\ l \notin used
          /\ \A i \in 1..Len(Alphabet) : i < LetterIndex(l) => Alphabet[i] \in used

\* The artist holds a and c, and the new album was given b.
C3_Witness ==
    /\ Allocated
    /\ StoredLetters(catOp.res.obj.genre_abbr, catOp.res.obj.artist_num) = {"a", "c"}
    /\ catOp.res.obj.letter = "b"

\* C4: whatever the caller supplies as date_entered, or nothing, the
\* date_entered of a constructed AlbumReview is the time of its construction.
C4_AntiBackdating ==
    catOp.op = "AlbumReview" =>
       /\ "date_entered" \in DOMAIN catOp.obj
       /\ catOp.obj.date_entered = catOp.at

\* The artist the keywords of a construction name, and whether they give a letter.
KwTag(kw) == decompose_tag(kw.id)

KwGenre(kw) == IF "id" \in DOMAIN kw THEN KwTag(kw).genre_abbr ELSE kw.genre_abbr

KwArtistNum(kw) == IF "id" \in DOMAIN kw THEN KwTag(kw).artist_num ELSE kw.artist_num

KwWellFormed(kw) == "id" \in DOMAIN kw => KwTag(kw).ok

KwLetterGiven(kw) ==
    \/ "letter" \in DOMAIN kw
    \/ "id" \in DOMAIN kw /\ KwTag(kw).album_letter # None

ArtistExists(g, n) == \E a \in artists : a.genre_abbr = g /\ a.number = n

Canonical(tag) ==
    \/ Len(tag) < 4
    \/ tag[3] # "0"
    \/ ~isdigit(tag[4])

LetterBearing(tag) == Len(tag) > 0 /\ ~isdigit(tag[Len(tag)])

\* C6 as stated: every accepted tag is composed back from its parts, and the
\* id of an Album constructed from a letter-bearing tag is that tag.
C6_Original ==
    /\ (codecOp.op = "decompose" /\ codecOp.res.ok) => codecOp.back = tagIn
    /\ (catOp.op = "id" /\ LetterBearing(tagIn)) => (catOp.res.ok /\ catOp.res.id = tagIn)

\* C6 amended: the same, for the tags whose artist number has no leading zero.
C6_RoundTrip ==
    Canonical(tagIn) =>
       /\ (codecOp.op = "decompose" /\ codecOp.res.ok) => codecOp.back = tagIn
       /\ (catOp.op = "id" /\ LetterBearing(tagIn)) => (catOp.res.ok /\ catOp.res.id = tagIn)

\* A tag of genre, two digits and letter went through the codec, and the
\* stored Album made from it reported its id.
C6_Witness ==
    /\ Len(tagIn) = 5
    /\ Canonical(tagIn)
    /\ LetterBearing(tagIn)
    /\ codecOp.op = "decompose"
    /\ codecOp.res.ok
    /\ catOp.op = "id"
    /\ catOp.res.ok

\* C7: right after a Genre is deleted, no Album, AlbumReview or AlbumProblem
\* of that genre's abbreviation is in the store.
C7_Cascade ==
    catOp.op = "deleteGenre" =>
       \A x \in albums \cup reviews \cup problems : x.genre_abbr # catOp.genre

\* A genre that had an album, a review and a problem report was deleted; the
\* rows of the other genre are still there.
C7_Witness ==
    /\ catOp.op = "deleteGenre"
    /\ catOp.rows >= 1
    /\ catOp.notes >= 2
    /\ albums # {}
    /\ reviews # {}

\* C8: is_new, read at any time, is true iff less than 180 days have passed
\* since date_added: true at 179 days, false at 180 days and at 181 days.
C8_IsNew ==
    catOp.op = "is_new" =>
       \E o \in albumObjs \cup albums :
          /\ o.oid = catOp.oid
          /\ LET age == now - o.date_added
             IN /\ catOp.value <=> (age < 180 * TicksPerDay)
                /\ age = 179 * TicksPerDay => catOp.value
                /\ age \in {180 * TicksPerDay, 181 * TicksPerDay} => ~catOp.value

\* An album that an earlier read found new is read again exactly 180 days
\* after date_added, nothing having been written to it, and is not new.
C8_Witness ==
    /\ catOp.op = "is_new"
    /\ catOp.seenNew
    /\ ~catOp.value
    /\ \E o \in albumObjs : o.oid = catOp.oid /\ now - o.date_added = 180 * TicksPerDay

\* C9: with an id tag, genre_abbr and artist_num are the tag's; a letter in the
\* tag replaces a supplied letter and nothing is allocated; without a letter in
\* the tag a supplied letter is kept, and the allocator is asked only when
\* none was supplied.
C9_TagPrecedence ==
    (catOp.op = "Album" /\ "id" \in DOMAIN catOp.kwargs /\ catOp.res.ok) =>
       LET kw == catOp.kwargs
           d == decompose_tag(kw.id)
           obj == catOp.res.obj
       IN /\ obj.genre_abbr = d.genre_abbr
          /\ obj.artist_num = d.artist_num
          /\ "id" \notin DOMAIN obj
          /\ d.album_letter # None => (obj.letter = d.album_letter /\ ~catOp.res.allocated)
          /\ (d.album_letter = None /\ "letter" \in DOMAIN kw) =>
                (obj.letter = kw.letter /\ ~catOp.res.allocated)
          /\ (d.album_letter = None /\ "letter" \notin DOMAIN kw) => catOp.res.allocated

\* An Album was constructed from a tag carrying b and an explicit letter a.
C9_Witness ==
    /\ catOp.op = "Album"
    /\ catOp.res.ok
    /\ "id" \in DOMAIN catOp.kwargs
    /\ "letter" \in DOMAIN catOp.kwargs
    /\ catOp.kwargs.letter = "a"
    /\ catOp.res.obj.letter = "b"

\* C11: once is_connected() is true it stays true, and no later step, a
\* connect() with any file path and any reset among them, changes the Session
\* factory, deletes a database file or creates the database again.
C11_ConnectIdempotent ==
    [][is_connected(Session) =>
          /\ is_connected(Session')
          /\ Session' = Session
          /\ dbFiles' = dbFiles
          /\ dbCreates' = dbCreates]_vars

\* connect() was called while connected, with reset=True and the path of
\* another file.
C11_Witness ==
    /\ logOp.op = "connect"
    /\ logOp.connected
    /\ logOp.reset
    /\ logOp.file_path # Session
    /\ is_connected(Session)

====
